---- MODULE Spec2Model ----
(***************************************************************************)
(* ESP32-S3 soil monitor (SoilMonitor.ino): the wake dispatcher, the       *)
(* button classifier, the calibration engine, the schedule planner and     *)
(* sleep arming, as a state machine over successive boots of the device.   *)
(*                                                                         *)
(* One boot runs setup() from pc = "setup" to deep sleep (pc = "asleep"),  *)
(* to a software restart (pc = "restarted") or back into loop()            *)
(* (pc = "loop").  The environment owns the button level, the serial       *)
(* console, the WiFi link, the time source, the webhook and the sensor.    *)
(***************************************************************************)
EXTENDS Integers, Sequences, FiniteSets, TLC

\* ------------------------------------------------------------ constants
DEFAULT_SLEEP_SECONDS == 1800
WIFI_MAX_ATTEMPTS == 3
BUTTON_SHORT_PRESS_MS == 1000
WIFI_POLL_LIMIT == 20
BUTTON_WINDOW_MS == 100
BUTTON_POLL_MS == 10
NUM_READINGS == 10
CALIBRATION_READINGS == 20
DRY_THRESHOLD == 2000
WET_THRESHOLD == 1800
DEFAULT_DRY == 2800
DEFAULT_WET == 1300
CALIBRATION_SLEEP_SECONDS == 300
SETUP_SLEEP_SECONDS == 3600
NTP_VALID_EPOCH == 1000000000
TZ_OFFSET_SECONDS == 32400
HTTP_NO_CONTENT == 204
ADC_MAX == 4095

\* --------------------------------------------------------------- bounds
\* Longest console line the operator types (characters).
MaxLineLen == 1
\* The press timer is followed up to this many polls past the short/long
\* boundary; beyond it only "pressTime >= BUTTON_SHORT_PRESS_MS" matters.
MaxPressSlack == 2

\* A key that was never written to NVS (getInt then yields its default).
Absent == 0 - 1

\* ------------------------------------------------------- input domains
Chars == {" ", "a"}

RECURSIVE LinesUpTo(_)
LinesUpTo(n) ==
    IF n = 0 THEN {<<>>}
    ELSE LinesUpTo(n - 1) \cup
         {Append(l, c) : l \in {x \in LinesUpTo(n - 1) : Len(x) = n - 1}, c \in Chars}

\* What the operator may type on the console, one line at a time.
InputLines == LinesUpTo(MaxLineLen)

\* Averaged ADC levels the sensor may show during one boot.
SoilLevels == {1500, 1800, 1900, 2000, 2200}

\* time(nullptr) after configTime: unsynchronised, just below / at the
\* sanity threshold, and synchronised instants (1699999200 is hh:00:00 JST).
TimeValues == {0, 999999999, 1000000000, 1699999200, 1700000999}

\* http.POST results: success, an HTTP error, a transport error.
HttpCodes == {204, 401, -1}

\* ------------------------------------------------------- pure helpers
Min(a, b) == IF a < b THEN a ELSE b

\* C++ integer division truncates toward zero.
TruncDiv(a, b) ==
    IF (a >= 0) = (b > 0) THEN (IF a >= 0 THEN a ELSE -a) \div (IF b > 0 THEN b ELSE -b)
    ELSE -((IF a >= 0 THEN a ELSE -a) \div (IF b > 0 THEN b ELSE -b))

\* String::trim(): drop leading and trailing blanks.
RECURSIVE TrimLeft(_)
TrimLeft(str) ==
    IF str # <<>> /\ Head(str) = " " THEN TrimLeft(Tail(str)) ELSE str

RECURSIVE TrimRight(_)
TrimRight(str) ==
    IF str # <<>> /\ str[Len(str)] = " "
    THEN TrimRight(SubSeq(str, 1, Len(str) - 1)) ELSE str

trim(str) == TrimRight(TrimLeft(str))

\* ---------------------------------------------------------------- state
VARIABLES
    pc,             \* position of the firmware in the current boot
    wakeup_reason,  \* esp_sleep_get_wakeup_cause() of the current boot
    button,         \* level of GPIO2 (INPUT_PULLUP: "LOW" while pressed)
    serial,         \* console lines typed and not yet read (at most one)
    link,           \* WiFi.status(): "up" is WL_CONNECTED
    sensor,         \* ADC level of the sensor in this boot (Absent: not yet read)
    nvs,            \* Preferences: ssid, password, token, dry_value, wet_value
    handler,        \* the handler the dispatcher selected in this boot
    loc,            \* locals of the running loops
    events,         \* what this boot has done so far, in order
    wifiResult,     \* what connectToWiFi returned in this boot
    sendResult,     \* what sendDataToGitHub returned in this boot
    planResult,     \* what calculateNextWakeTime returned in this boot
    payload,        \* client_payload of the webhook POST of this boot
    calib,          \* outcome of performCalibration in this boot
    armed,          \* wake sources enabled in this boot
    timerSeconds    \* duration given to the timer wake source

vars == <<pc, wakeup_reason, button, serial, link, sensor, nvs, handler, loc, events,
          wifiResult, sendResult, planResult, payload, calib, armed, timerSeconds>>

State ==
    [pc |-> pc, wakeup_reason |-> wakeup_reason, button |-> button,
     serial |-> serial, link |-> link, sensor |-> sensor, nvs |-> nvs,
     handler |-> handler,
     loc |-> loc, events |-> events, wifiResult |-> wifiResult,
     sendResult |-> sendResult, planResult |-> planResult, payload |-> payload,
     calib |-> calib, armed |-> armed, timerSeconds |-> timerSeconds]

Set(s) ==
    /\ pc' = s.pc
    /\ wakeup_reason' = s.wakeup_reason
    /\ button' = s.button
    /\ serial' = s.serial
    /\ link' = s.link
    /\ sensor' = s.sensor
    /\ nvs' = s.nvs
    /\ handler' = s.handler
    /\ loc' = s.loc
    /\ events' = s.events
    /\ wifiResult' = s.wifiResult
    /\ sendResult' = s.sendResult
    /\ planResult' = s.planResult
    /\ payload' = s.payload
    /\ calib' = s.calib
    /\ armed' = s.armed
    /\ timerSeconds' = s.timerSeconds

WakeCauses == {"UNDEFINED", "TIMER", "EXT0", "OTHER"}

LocInit ==
    [elapsed |-> 0, pressTime |-> 0, attempt |-> 0, attempts |-> 0,
     i |-> 0, totalValue |-> 0, soilMoisture |-> 0, inputs |-> <<>>,
     now |-> 0, dryValue |-> 0, wetValue |-> 0]

NoPayload == [raw_value |-> Absent, moisture_tenths |-> Absent, timestamp |-> Absent]
NoCalib == [outcome |-> "none", currentValue |-> Absent, before |-> <<Absent, Absent>>,
            warning |-> FALSE]

\* Volatile state at the start of a boot: deep sleep and reset discard it.
BootState(reason, level, store) ==
    [pc |-> "setup", wakeup_reason |-> reason, button |-> level, serial |-> <<>>,
     link |-> "down",
     sensor |-> Absent, nvs |-> store, handler |-> "none", loc |-> LocInit,
     events |-> <<>>, wifiResult |-> "none", sendResult |-> "none",
     planResult |-> Absent, payload |-> NoPayload, calib |-> NoCalib,
     armed |-> {}, timerSeconds |-> Absent]

\* NVS as the sketches of this repository can leave it before the firmware
\* runs: empty, WiFi credentials only (the WiFi setup sketch), or complete;
\* calibration never written, or written by the debug console's
\* calibrateSensor, which stores whatever two averages it measured.
InitConfigs ==
    {[ssid |-> <<>>, password |-> <<>>, token |-> <<>>],
     [ssid |-> <<"a">>, password |-> <<"a">>, token |-> <<>>],
     [ssid |-> <<"a">>, password |-> <<"a">>, token |-> <<"a">>]}

InitCalibrations == {<<Absent, Absent>>, <<1500, 1500>>}

InitStores ==
    {[ssid |-> c.ssid, password |-> c.password, token |-> c.token,
      dry_value |-> k[1], wet_value |-> k[2]] :
        c \in InitConfigs, k \in InitCalibrations}

\* The level of GPIO2 at the instant of the wake: the EXT0 source fires on
\* LOW, so a button wake starts pressed and any other wake starts released.
LevelAtWake(reason) == IF reason = "EXT0" THEN "LOW" ELSE "HIGH"

Is(s) ==
    /\ pc = s.pc
    /\ wakeup_reason = s.wakeup_reason
    /\ button = s.button
    /\ serial = s.serial
    /\ link = s.link
    /\ sensor = s.sensor
    /\ nvs = s.nvs
    /\ handler = s.handler
    /\ loc = s.loc
    /\ events = s.events
    /\ wifiResult = s.wifiResult
    /\ sendResult = s.sendResult
    /\ planResult = s.planResult
    /\ payload = s.payload
    /\ calib = s.calib
    /\ armed = s.armed
    /\ timerSeconds = s.timerSeconds

\* A boot with whatever wake cause the platform reports and whatever the
\* store holds.
Init ==
    \E reason \in WakeCauses, store \in InitStores :
        Is(BootState(reason, LevelAtWake(reason), store))

\* ------------------------------------------------- the firmware's code
\* The locals of a function are reset to LocInit when it returns: they are
\* dead from there on.
Log(s, e) == [s EXCEPT !.events = Append(@, e)]

\* preferences.getInt(key, default)
getInt(value, default) == IF value = Absent THEN default ELSE value

\* goToSleep with the button wake left out.
goToSleep_TimerOnly(s, sleepSeconds) ==
    [Log(s, "sleep") EXCEPT
        !.link = "down",
        !.armed = {"TIMER"},
        !.timerSeconds = sleepSeconds,
        !.pc = "asleep"]

\* goToSleep: WiFi off, arm the button wake and the timer wake, deep sleep.
goToSleep(s, sleepSeconds) ==
    [Log(s, "sleep") EXCEPT
        !.link = "down",
        !.armed = {"EXT0", "TIMER"},
        !.timerSeconds = sleepSeconds,
        !.pc = "asleep"]

\* calculateNextWakeTime, given what time(nullptr) returned; localtime uses
\* the offset set by configTime(9 * 3600, 0, ...).
tm_min(now) == ((now + TZ_OFFSET_SECONDS) \div 60) % 60
tm_sec(now) == (now + TZ_OFFSET_SECONDS) % 60

\* secondsToTarget always aiming at the next full hour.
secondsToTarget_NextHour(currentMinute, currentSecond) ==
    LET targetMinute == 60
        minutesToTarget == targetMinute - currentMinute
    IN  IF minutesToTarget = 60
        THEN (60 - currentMinute) * 60 - currentSecond
        ELSE (minutesToTarget * 60) - currentSecond

\* secondsToTarget without the seconds already elapsed in the minute.
secondsToTarget_WholeMinutes(currentMinute, currentSecond) ==
    LET targetMinute == IF currentMinute < 30 THEN 30 ELSE 60
        minutesToTarget == targetMinute - currentMinute
    IN  IF minutesToTarget = 60
        THEN (60 - currentMinute) * 60
        ELSE (minutesToTarget * 60)

\* secondsToTarget computed as a remainder of the half hour.
secondsToTarget_Modulo(currentMinute, currentSecond) ==
    (1800 - ((currentMinute * 60 + currentSecond) % 1800)) % 1800

secondsToTarget(currentMinute, currentSecond) ==
    LET targetMinute == IF currentMinute < 30 THEN 30 ELSE 60
        minutesToTarget == targetMinute - currentMinute
    IN  IF minutesToTarget = 60
        THEN (60 - currentMinute) * 60 - currentSecond
        ELSE (minutesToTarget * 60) - currentSecond

\* calculateNextWakeTime rejecting the threshold value itself.
calculateNextWakeTime_Inclusive(now) ==
    IF now <= NTP_VALID_EPOCH THEN DEFAULT_SLEEP_SECONDS
    ELSE secondsToTarget(tm_min(now), tm_sec(now))

calculateNextWakeTime(now) ==
    IF now < NTP_VALID_EPOCH THEN DEFAULT_SLEEP_SECONDS
    ELSE secondsToTarget(tm_min(now), tm_sec(now))

\* The tail of the measuring handlers sleeping the default interval instead
\* of the computed one.
sleepUntilNextWake_Default(s, now) ==
    LET sleepSeconds == calculateNextWakeTime(now)
    IN  goToSleep([Log(Log(s, "ntp"), "plan") EXCEPT !.planResult = sleepSeconds],
                  DEFAULT_SLEEP_SECONDS)

\* "int sleepSeconds = calculateNextWakeTime(); goToSleep(sleepSeconds);"
\* the tail of performManualMeasurement, performNormalOperation and
\* performInitialSleep.
sleepUntilNextWake(s, now) ==
    LET sleepSeconds == calculateNextWakeTime(now)
    IN  goToSleep([Log(Log(s, "ntp"), "plan") EXCEPT !.planResult = sleepSeconds],
                  sleepSeconds)

\* Arduino map() of the ESP32 core and constrain().
map(x, in_min, in_max, out_min, out_max) ==
    LET run == in_max - in_min
        rise == out_max - out_min
        delta == x - in_min
    IN  IF run = 0 THEN 0 - 1
        ELSE TruncDiv(delta * rise, run) + out_min

constrain(x, lo, hi) == IF x < lo THEN lo ELSE IF x > hi THEN hi ELSE x

\* moisture_percent without the constrain.
moistureTenths_Unconstrained(soilMoisture, store) ==
    LET dryValue == getInt(store.dry_value, DEFAULT_DRY)
        wetValue == getInt(store.wet_value, DEFAULT_WET)
    IN  10 * map(soilMoisture, dryValue, wetValue, 0, 100)

\* moisture_percent of the payload, in tenths of a percent:
\* round(constrain(map(...), 0, 100) * 10) / 10.0
moistureTenths(soilMoisture, store) ==
    LET dryValue == getInt(store.dry_value, DEFAULT_DRY)
        wetValue == getInt(store.wet_value, DEFAULT_WET)
    IN  10 * constrain(map(soilMoisture, dryValue, wetValue, 0, 100), 0, 100)

\* sendDataToGitHub storing the calibration values it read, defaults included.
sendDataToGitHub_StoresDefaults(s, soilMoisture, now, httpResponseCode) ==
    LET s1 == Log(s, "deliver")
    IN  IF s.link # "up" THEN [s1 EXCEPT !.sendResult = "false"]
        ELSE IF s1.nvs.token = <<>> THEN [s1 EXCEPT !.sendResult = "false"]
        ELSE [Log(Log(s1, "ntp"), "post") EXCEPT
                !.nvs.dry_value = getInt(@, DEFAULT_DRY),
                !.nvs.wet_value = getInt(@, DEFAULT_WET),
                !.payload = [raw_value |-> soilMoisture,
                             moisture_tenths |-> moistureTenths(soilMoisture, s1.nvs),
                             timestamp |-> now],
                !.sendResult = IF httpResponseCode = HTTP_NO_CONTENT
                               THEN "true" ELSE "false"]

\* sendDataToGitHub posting a second time after a response other than 204.
sendDataToGitHub_Retries(s, soilMoisture, now, httpResponseCode) ==
    LET s1 == Log(s, "deliver")
    IN  IF s.link # "up" THEN [s1 EXCEPT !.sendResult = "false"]
        ELSE IF s1.nvs.token = <<>> THEN [s1 EXCEPT !.sendResult = "false"]
        ELSE LET s2 == IF httpResponseCode = HTTP_NO_CONTENT
                       THEN Log(Log(s1, "ntp"), "post")
                       ELSE Log(Log(Log(Log(s1, "ntp"), "post"), "deliver"), "post")
             IN  [s2 EXCEPT
                    !.payload = [raw_value |-> soilMoisture,
                                 moisture_tenths |-> moistureTenths(soilMoisture, s1.nvs),
                                 timestamp |-> now],
                    !.sendResult = IF httpResponseCode = HTTP_NO_CONTENT
                                   THEN "true" ELSE "false"]

\* sendDataToGitHub(soilMoisture), given the time and the response the
\* collaborators produce.
sendDataToGitHub(s, soilMoisture, now, httpResponseCode) ==
    LET s1 == Log(s, "deliver")
    IN  IF s.link # "up" THEN [s1 EXCEPT !.sendResult = "false"]
        ELSE IF s1.nvs.token = <<>> THEN [s1 EXCEPT !.sendResult = "false"]
        ELSE [Log(Log(s1, "ntp"), "post") EXCEPT
                !.payload = [raw_value |-> soilMoisture,
                             moisture_tenths |-> moistureTenths(soilMoisture, s1.nvs),
                             timestamp |-> now],
                !.sendResult = IF httpResponseCode = HTTP_NO_CONTENT
                               THEN "true" ELSE "false"]

\* performInitialSetup: prompt for the three values (readSerialInput).
performInitialSetup(s) ==
    [Log(s, "setup") EXCEPT !.pc = "readSerialInput", !.loc.inputs = <<>>]

\* The test of checkInitialSetup.
configPresent(store) ==
    ~(Len(store.ssid) = 0 \/ Len(store.password) = 0 \/ Len(store.token) = 0)

\* connectToWiFi up to the first WiFi.begin: no attempt without credentials.
credentialsPresent(store) ==
    ~(Len(store.ssid) = 0 \/ Len(store.password) = 0)

\* performManualMeasurement returning on a failed connection without
\* goToSleep: control falls back through setup() into loop().
performManualMeasurement_wifi_Returns(s, connected) ==
    IF ~connected THEN [s EXCEPT !.pc = "loop"]
    ELSE [s EXCEPT !.pc = "readSoilMoisture", !.loc.i = 0, !.loc.totalValue = 0]

\* What each caller does with the result of connectToWiFi.
performManualMeasurement_wifi(s, connected) ==
    IF ~connected THEN goToSleep(s, DEFAULT_SLEEP_SECONDS)
    ELSE [s EXCEPT !.pc = "readSoilMoisture", !.loc.i = 0, !.loc.totalValue = 0]

\* performNormalOperation planning its sleep after a failed connection.
performNormalOperation_wifi_Plans(s, connected) ==
    IF ~connected THEN [s EXCEPT !.pc = "calculateNextWakeTime"]
    ELSE [s EXCEPT !.pc = "readSoilMoisture", !.loc.i = 0, !.loc.totalValue = 0]

performNormalOperation_wifi(s, connected) ==
    IF ~connected THEN goToSleep(s, DEFAULT_SLEEP_SECONDS)
    ELSE [s EXCEPT !.pc = "readSoilMoisture", !.loc.i = 0, !.loc.totalValue = 0]

\* performInitialSleep measuring once connected.
performInitialSleep_wifi_Measures(s, connected) ==
    IF connected
    THEN [s EXCEPT !.pc = "readSoilMoisture", !.loc.i = 0, !.loc.totalValue = 0]
    ELSE goToSleep(s, DEFAULT_SLEEP_SECONDS)

performInitialSleep_wifi(s, connected) ==
    IF connected THEN [s EXCEPT !.pc = "calculateNextWakeTime"]
    ELSE goToSleep(s, DEFAULT_SLEEP_SECONDS)

connectToWiFi_return(s, connected) ==
    LET s1 == [s EXCEPT !.wifiResult = IF connected THEN "true" ELSE "false",
                        !.loc = LocInit]
    IN  CASE s.handler = "performManualMeasurement" ->
                performManualMeasurement_wifi(s1, connected)
          [] s.handler = "performNormalOperation" ->
                performNormalOperation_wifi(s1, connected)
          [] OTHER -> performInitialSleep_wifi(s1, connected)

connectToWiFi(s) ==
    IF ~credentialsPresent(s.nvs) THEN connectToWiFi_return(s, FALSE)
    ELSE [s EXCEPT !.pc = "connectToWiFi", !.link = "down",
                   !.loc.attempt = 1, !.loc.attempts = 0]

\* performInitialSleep up to its first wait.
performInitialSleep(s) ==
    LET s1 == [s EXCEPT !.handler = "performInitialSleep"]
    IN  IF ~configPresent(s1.nvs) THEN performInitialSetup(s1)
        ELSE connectToWiFi(s1)

\* performNormalOperation without the configuration check.
performNormalOperation_NoCheck(s) ==
    connectToWiFi([s EXCEPT !.handler = "performNormalOperation"])

\* performNormalOperation up to its first wait.
performNormalOperation(s) ==
    LET s1 == [s EXCEPT !.handler = "performNormalOperation"]
    IN  IF ~configPresent(s1.nvs) THEN performInitialSetup(s1)
        ELSE connectToWiFi(s1)

\* performManualMeasurement up to its first wait.
performManualMeasurement(s) ==
    connectToWiFi([s EXCEPT !.handler = "performManualMeasurement"])

\* performCalibration up to the sampling loop.
performCalibration(s) ==
    [s EXCEPT !.handler = "performCalibration",
              !.pc = "performCalibration",
              !.calib.before = <<getInt(s.nvs.dry_value, DEFAULT_DRY),
                                 getInt(s.nvs.wet_value, DEFAULT_WET)>>,
              !.loc.i = 0, !.loc.totalValue = 0]

\* The state detection with strict comparisons.
calibrate_Strict(currentValue, store) ==
    IF currentValue > DRY_THRESHOLD
    THEN [store EXCEPT !.dry_value = currentValue]
    ELSE IF currentValue < WET_THRESHOLD
    THEN [store EXCEPT !.wet_value = currentValue]
    ELSE store

\* The state detection writing back the other value as it was read.
calibrate_WritesBoth(currentValue, store) ==
    IF currentValue >= DRY_THRESHOLD
    THEN [store EXCEPT !.dry_value = currentValue,
                       !.wet_value = getInt(@, DEFAULT_WET)]
    ELSE IF currentValue <= WET_THRESHOLD
    THEN [store EXCEPT !.wet_value = currentValue,
                       !.dry_value = getInt(@, DEFAULT_DRY)]
    ELSE store

\* The state detection taking the dead zone's upper half for dry.
calibrate_LowDryThreshold(currentValue, store) ==
    IF currentValue >= (DRY_THRESHOLD + WET_THRESHOLD) \div 2
    THEN [store EXCEPT !.dry_value = currentValue]
    ELSE IF currentValue <= WET_THRESHOLD
    THEN [store EXCEPT !.wet_value = currentValue]
    ELSE store

\* The automatic state detection of performCalibration: what it stores.
calibrate(currentValue, store) ==
    IF currentValue >= DRY_THRESHOLD
    THEN [store EXCEPT !.dry_value = currentValue]
    ELSE IF currentValue <= WET_THRESHOLD
    THEN [store EXCEPT !.wet_value = currentValue]
    ELSE store

calibrationOutcome(currentValue) ==
    IF currentValue >= DRY_THRESHOLD THEN "DryUpdated"
    ELSE IF currentValue <= WET_THRESHOLD THEN "WetUpdated"
    ELSE "NoChange"

\* The validation accepting equal values.
invalidRange_Strict(store) ==
    getInt(store.dry_value, DEFAULT_DRY) < getInt(store.wet_value, DEFAULT_WET)

\* The validation of the final pair.
invalidRange(store) ==
    getInt(store.dry_value, DEFAULT_DRY) <= getInt(store.wet_value, DEFAULT_WET)

\* performCalibration going to sleep without the putInt.
performCalibration_finish_NoStore(s, currentValue) ==
    LET store == calibrate(currentValue, s.nvs)
        s1 == [Log(s, "calibrate") EXCEPT
                 !.calib.outcome = calibrationOutcome(currentValue),
                 !.calib.currentValue = currentValue,
                 !.calib.warning = invalidRange(store)]
    IN  goToSleep(s1, CALIBRATION_SLEEP_SECONDS)

\* performCalibration ending with the default interval.
performCalibration_finish_Default(s, currentValue) ==
    LET store == calibrate(currentValue, s.nvs)
        s1 == [Log(s, "calibrate") EXCEPT
                 !.nvs = store,
                 !.calib.outcome = calibrationOutcome(currentValue),
                 !.calib.currentValue = currentValue,
                 !.calib.warning = invalidRange(store)]
    IN  goToSleep(s1, DEFAULT_SLEEP_SECONDS)

\* performCalibration after the sampling loop.
performCalibration_finish(s, currentValue) ==
    LET store == calibrate(currentValue, s.nvs)
        s1 == [Log(s, "calibrate") EXCEPT
                 !.nvs = store,
                 !.calib.outcome = calibrationOutcome(currentValue),
                 !.calib.currentValue = currentValue,
                 !.calib.warning = invalidRange(store)]
    IN  goToSleep(s1, CALIBRATION_SLEEP_SECONDS)

\* The press-duration test counting the boundary as short.
isShortPress_Inclusive(pressTime) == pressTime <= BUTTON_SHORT_PRESS_MS

\* The press-duration test of handleButtonOperation.
isShortPress(pressTime) == pressTime < BUTTON_SHORT_PRESS_MS

\* One pass of the press-timing loop of handleButtonOperation, and what
\* follows the release.  pressTime is millis() - pressStart; it is followed
\* only up to MaxPressMs, past which it no longer changes the outcome.
MaxPressMs == BUTTON_SHORT_PRESS_MS + MaxPressSlack * BUTTON_POLL_MS

\* handleButtonOperation choosing by wake cause: a press seen after a wake
\* that was not a button wake falls through to normal operation.
handleButtonOperation_ByWakeCause(s) ==
    IF s.button = "LOW"
    THEN [s EXCEPT !.loc.pressTime = Min(@ + BUTTON_POLL_MS, MaxPressMs)]
    ELSE IF s.wakeup_reason # "EXT0"
         THEN performNormalOperation([s EXCEPT !.loc = LocInit])
         ELSE IF isShortPress(s.loc.pressTime)
              THEN performManualMeasurement([s EXCEPT !.loc = LocInit])
              ELSE performCalibration([s EXCEPT !.loc = LocInit])

handleButtonOperation(s) ==
    IF s.button = "LOW"
    THEN [s EXCEPT !.loc.pressTime = Min(@ + BUTTON_POLL_MS, MaxPressMs)]
    ELSE IF isShortPress(s.loc.pressTime)
         THEN performManualMeasurement([s EXCEPT !.loc = LocInit])
         ELSE performCalibration([s EXCEPT !.loc = LocInit])

\* One pass of the sampling window of checkButtonPress, and what setup()
\* does when the window closes without a press.
checkButtonPress(s) ==
    IF s.button = "LOW"
    THEN [Log(s, "press") EXCEPT !.pc = "handleButtonOperation", !.loc = LocInit]
    ELSE LET waited == s.loc.elapsed + BUTTON_POLL_MS
         IN  IF waited < BUTTON_WINDOW_MS THEN [s EXCEPT !.loc.elapsed = waited]
             ELSE performNormalOperation([s EXCEPT !.loc = LocInit])

\* setup() up to its first wait.
setup_dispatch(s) ==
    IF s.wakeup_reason = "UNDEFINED" THEN performInitialSleep(s)
    ELSE [s EXCEPT !.pc = "checkButtonPress", !.loc.elapsed = 0]

\* The polling loop without "attempts++".
connectToWiFi_poll_NoCount(s) ==
    IF s.link # "up" /\ s.loc.attempts < WIFI_POLL_LIMIT
    THEN s
    ELSE [s EXCEPT !.pc = "connectToWiFi_check"]

\* One pass of the status polling of connectToWiFi.
connectToWiFi_poll(s) ==
    IF s.link # "up" /\ s.loc.attempts < WIFI_POLL_LIMIT
    THEN [s EXCEPT !.loc.attempts = @ + 1]
    ELSE [s EXCEPT !.pc = "connectToWiFi_check"]

\* The test after the polling with one attempt too many.
connectToWiFi_check_OffByOne(s) ==
    IF s.link = "up" THEN connectToWiFi_return(s, TRUE)
    ELSE IF s.loc.attempt <= WIFI_MAX_ATTEMPTS
         THEN [s EXCEPT !.pc = "connectToWiFi",
                        !.loc.attempt = @ + 1, !.loc.attempts = 0]
         ELSE connectToWiFi_return(s, FALSE)

\* The test after the polling: connected, next attempt, or give up.
connectToWiFi_check(s) ==
    IF s.link = "up" THEN connectToWiFi_return(s, TRUE)
    ELSE IF s.loc.attempt + 1 <= WIFI_MAX_ATTEMPTS
         THEN [s EXCEPT !.pc = "connectToWiFi",
                        !.loc.attempt = @ + 1, !.loc.attempts = 0]
         ELSE connectToWiFi_return(s, FALSE)

\* analogRead(SOIL_SENSOR_PIN): the level is steady within one boot.
analogRead(s) == IF s.sensor = Absent THEN SoilLevels ELSE {s.sensor}

\* One pass of the averaging loop of readSoilMoisture.
readSoilMoisture(s, reading) ==
    LET s1 == [s EXCEPT !.sensor = reading,
                        !.loc.totalValue = @ + reading,
                        !.loc.i = @ + 1]
    IN  IF s1.loc.i < NUM_READINGS THEN s1
        ELSE [Log(s1, "measure") EXCEPT
                !.loc = [LocInit EXCEPT
                    !.soilMoisture = TruncDiv(s1.loc.totalValue, NUM_READINGS)],
                !.pc = "sendDataToGitHub"]

\* One pass of the 20-sample loop of performCalibration.
performCalibration_sample(s, reading) ==
    LET s1 == [s EXCEPT !.sensor = reading,
                        !.loc.totalValue = @ + reading,
                        !.loc.i = @ + 1]
    IN  IF s1.loc.i < CALIBRATION_READINGS THEN s1
        ELSE performCalibration_finish(
                 [s1 EXCEPT !.loc = LocInit],
                 TruncDiv(s1.loc.totalValue, CALIBRATION_READINGS))

\* performInitialSetup once the three values are read: store and restart.
performInitialSetup_save(s) ==
    [Log(s, "restart") EXCEPT
        !.nvs.ssid = s.loc.inputs[1],
        !.nvs.password = s.loc.inputs[2],
        !.nvs.token = s.loc.inputs[3],
        !.loc = LocInit,
        !.pc = "restarted"]

\* readSerialInput taking the line as typed, empty or not.
readSerialInput_AcceptsEmpty(s) ==
    LET input == trim(Head(s.serial))
        s1 == [s EXCEPT !.serial = Tail(@)]
        s2 == [s1 EXCEPT !.loc.inputs = Append(@, input)]
    IN  IF Len(s2.loc.inputs) < 3 THEN s2
        ELSE performInitialSetup_save(s2)

\* readSerialInput with a line available: an empty line keeps it waiting.
readSerialInput(s) ==
    LET input == trim(Head(s.serial))
        s1 == [s EXCEPT !.serial = Tail(@)]
    IN  IF Len(input) = 0 THEN s1
        ELSE LET s2 == [s1 EXCEPT !.loc.inputs = Append(@, input)]
             IN  IF Len(s2.loc.inputs) < 3 THEN s2
                 ELSE performInitialSetup_save(s2)

\* ---------------------------------- the debug console's calibrateSensor
\* "Press Enter when ready...": the line is read and dropped, the sampling
\* of the dry or of the wet value starts.
calibrateSensor_enter(s) ==
    LET s1 == [s EXCEPT !.serial = Tail(@), !.loc.i = 0]
    IN  IF s.pc = "calibrateSensor_dryPrompt"
        THEN [s1 EXCEPT !.pc = "calibrateSensor_dry", !.loc.dryValue = 0]
        ELSE [s1 EXCEPT !.pc = "calibrateSensor_wet", !.loc.wetValue = 0]

\* One pass of the 20-sample loop of the dry value.
calibrateSensor_dry(s, reading) ==
    LET s1 == [s EXCEPT !.loc.dryValue = @ + reading, !.loc.i = @ + 1]
    IN  IF s1.loc.i < CALIBRATION_READINGS THEN s1
        ELSE [s1 EXCEPT
                !.loc.dryValue = TruncDiv(@, CALIBRATION_READINGS),
                !.loc.i = 0,
                !.pc = "calibrateSensor_wetPrompt"]

\* One pass of the 20-sample loop of the wet value; after the last one both
\* values are stored and the menu is shown.
calibrateSensor_wet(s, reading) ==
    LET s1 == [s EXCEPT !.loc.wetValue = @ + reading, !.loc.i = @ + 1]
    IN  IF s1.loc.i < CALIBRATION_READINGS THEN s1
        ELSE LET wetValue == TruncDiv(s1.loc.wetValue, CALIBRATION_READINGS)
             IN  [s1 EXCEPT
                    !.loc.wetValue = wetValue,
                    !.loc.i = 0,
                    !.nvs.dry_value = s1.loc.dryValue,
                    !.nvs.wet_value = wetValue,
                    !.pc = "showMenu"]

\* -------------------------------------------------------------- actions
Setup ==
    /\ pc = "setup"
    /\ Set(setup_dispatch(State))

CheckButtonPress ==
    /\ pc = "checkButtonPress"
    /\ Set(checkButtonPress(State))

HandleButtonOperation ==
    /\ pc = "handleButtonOperation"
    /\ Set(handleButtonOperation(State))

ConnectToWiFiPoll ==
    /\ pc = "connectToWiFi"
    /\ Set(connectToWiFi_poll(State))

ConnectToWiFiCheck ==
    /\ pc = "connectToWiFi_check"
    /\ Set(connectToWiFi_check(State))

ReadSoilMoisture ==
    /\ pc = "readSoilMoisture"
    /\ \E reading \in analogRead(State) :
           Set(readSoilMoisture(State, reading))

SendDataToGitHub ==
    /\ pc = "sendDataToGitHub"
    /\ \E now \in TimeValues, code \in HttpCodes :
           Set([sendDataToGitHub(State, loc.soilMoisture, now, code)
                   EXCEPT !.pc = "calculateNextWakeTime", !.loc = LocInit])

CalculateNextWakeTime ==
    /\ pc = "calculateNextWakeTime"
    /\ \E now \in TimeValues : Set(sleepUntilNextWake(State, now))

PerformCalibration ==
    /\ pc = "performCalibration"
    /\ \E reading \in analogRead(State) :
           Set(performCalibration_sample(State, reading))

ReadSerialInput ==
    /\ pc = "readSerialInput"
    /\ serial # <<>>
    /\ Set(readSerialInput(State))

\* The firmware's steps.
Program ==
    \/ Setup
    \/ CheckButtonPress
    \/ HandleButtonOperation
    \/ ConnectToWiFiPoll
    \/ ConnectToWiFiCheck
    \/ ReadSoilMoisture
    \/ SendDataToGitHub
    \/ CalculateNextWakeTime
    \/ PerformCalibration
    \/ ReadSerialInput

\* The operator presses or releases the button while the firmware still
\* reads it (setup's start-up delay, the sampling window, the press timing).
ButtonChange ==
    /\ pc \in {"setup", "checkButtonPress", "handleButtonOperation"}
    /\ button' = IF button = "LOW" THEN "HIGH" ELSE "LOW"
    /\ UNCHANGED <<pc, wakeup_reason, serial, link, sensor, nvs, handler, loc, events,
                   wifiResult, sendResult, planResult, payload, calib, armed,
                   timerSeconds>>

\* The operator types a line while the firmware waits for one.
OperatorTypes ==
    /\ pc = "readSerialInput"
    /\ serial = <<>>
    /\ \E line \in InputLines : serial' = <<line>>
    /\ UNCHANGED <<pc, wakeup_reason, button, link, sensor, nvs, handler, loc, events,
                   wifiResult, sendResult, planResult, payload, calib, armed,
                   timerSeconds>>

\* The access point answers or drops the link while the firmware uses it.
LinkChange ==
    /\ pc \in {"connectToWiFi", "connectToWiFi_check", "sendDataToGitHub"}
    /\ link' = IF link = "up" THEN "down" ELSE "up"
    /\ UNCHANGED <<pc, wakeup_reason, button, serial, sensor, nvs, handler, loc,
                   events, wifiResult, sendResult, planResult, payload, calib,
                   armed, timerSeconds>>

\* The deep sleep ends: by a wake source that was armed, or by another
\* cause the platform reports.  The next boot starts.
Wake ==
    /\ pc = "asleep"
    /\ \E reason \in {"TIMER", "EXT0", "OTHER"} :
           /\ reason \in {"TIMER", "EXT0"} => reason \in armed
           /\ Set(BootState(reason, LevelAtWake(reason), nvs))

\* ESP.restart(): the next boot reports no wake cause.
Restart ==
    /\ pc = "restarted"
    /\ Set(BootState("UNDEFINED", "HIGH", nvs))

Next ==
    \/ Program
    \/ ButtonChange
    \/ OperatorTypes
    \/ LinkChange
    \/ Wake
    \/ Restart

Spec == Init /\ [][Next]_vars

\* The processor keeps executing the firmware; nothing obliges the operator
\* to release the button or to type, nor the access point to answer.
FairSpec == Spec /\ WF_vars(Program)

\* --------------------------------------- the components on their own
\* The calibration engine, the schedule planner, the press classifier and
\* the moisture computation, each started at the point of a boot where it
\* runs, over the whole range of its inputs.

\* The average of the ADC samples: 12 bits.
AveragedSamples == 0..ADC_MAX

\* A store with the configuration complete and the given calibration keys.
StoreWith(dry, wet) ==
    [ssid |-> <<"a">>, password |-> <<"a">>, token |-> <<"a">>,
     dry_value |-> dry, wet_value |-> wet]

\* What the calibration keys may hold when the calibration starts.
CalibrationValues == {Absent, 1500, 1900, 2800}

\* performCalibration at the last pass of its sampling loop: a long press
\* was released, 19 samples of the level are summed.
CalibrationInit ==
    \E currentValue \in AveragedSamples,
       dry \in CalibrationValues, wet \in CalibrationValues :
        Is([performCalibration(
                Log(BootState("EXT0", "HIGH", StoreWith(dry, wet)), "press"))
            EXCEPT !.sensor = currentValue,
                   !.loc.i = CALIBRATION_READINGS - 1,
                   !.loc.totalValue = (CALIBRATION_READINGS - 1) * currentValue])

CalibrationSpec == CalibrationInit /\ [][PerformCalibration]_vars

\* The start of an hour of local time (JST), in seconds since the epoch.
HourStart == 1699999200

\* What time(nullptr) may return in calculateNextWakeTime: no time, the
\* values around the sanity threshold, and every second of one hour.
ClockValues ==
    {0, NTP_VALID_EPOCH - 1, NTP_VALID_EPOCH, NTP_VALID_EPOCH + 1}
        \cup {HourStart + k : k \in 0..(60 * 60 - 1)}

\* performInitialSleep with the connection made, about to plan; now is what
\* time(nullptr) returns.
PlannerInit ==
    \E now \in ClockValues :
        Is([connectToWiFi_return(
                [BootState("UNDEFINED", "HIGH", StoreWith(Absent, Absent))
                    EXCEPT !.handler = "performInitialSleep", !.link = "up"],
                TRUE)
            EXCEPT !.loc.now = now])

\* calculateNextWakeTime and goToSleep with the time the clock holds.
CalculateNextWakeTimeAtClock ==
    /\ pc = "calculateNextWakeTime"
    /\ Set(sleepUntilNextWake(State, loc.now))

PlannerSpec == PlannerInit /\ [][CalculateNextWakeTimeAtClock]_vars

\* handleButtonOperation with the button still held, pressTime milliseconds
\* after the press was detected.
ClassifierInit ==
    \E pressTime \in 0..MaxPressMs, store \in InitStores :
        Is([Log(BootState("EXT0", "LOW", store), "press")
            EXCEPT !.pc = "handleButtonOperation", !.loc.pressTime = pressTime])

ClassifierNext ==
    \/ HandleButtonOperation
    \/ ButtonChange

ClassifierSpec == ClassifierInit /\ [][ClassifierNext]_vars

\* Calibration pairs the moisture computation may find: never written, equal,
\* inverted, narrow, and the two ends of the ADC range.
MoisturePairs ==
    {<<Absent, Absent>>, <<1500, 1500>>, <<1300, 2800>>, <<2000, 1800>>,
     <<ADC_MAX, 0>>}

\* A measuring boot with the connection made and the average taken.
MoistureInit ==
    \E soilMoisture \in AveragedSamples, pair \in MoisturePairs :
        Is([Log(BootState("TIMER", "HIGH", StoreWith(pair[1], pair[2])), "measure")
            EXCEPT !.handler = "performNormalOperation",
                   !.pc = "sendDataToGitHub",
                   !.link = "up",
                   !.wifiResult = "true",
                   !.sensor = soilMoisture,
                   !.loc.soilMoisture = soilMoisture])

MoistureSpec == MoistureInit /\ [][SendDataToGitHub]_vars

\* connectToWiFi as performManualMeasurement calls it: a short press was
\* released, with whatever the store holds.
WiFiInit ==
    \E store \in InitStores :
        Is([Log(BootState("EXT0", "HIGH", store), "press")
            EXCEPT !.pc = "handleButtonOperation"])

WiFiNext ==
    \/ HandleButtonOperation
    \/ ConnectToWiFiPoll
    \/ ConnectToWiFiCheck
    \/ LinkChange

\* The firmware keeps polling; nothing obliges the access point to answer.
WiFiSpec ==
    WiFiInit /\ [][WiFiNext]_vars /\ WF_vars(ConnectToWiFiPoll \/ ConnectToWiFiCheck)

\* The firmware on a device whose calibration keys were never written.
FactoryInit ==
    \E reason \in WakeCauses, c \in InitConfigs :
        Is(BootState(reason, LevelAtWake(reason),
                     [ssid |-> c.ssid, password |-> c.password, token |-> c.token,
                      dry_value |-> Absent, wet_value |-> Absent]))

FactorySpec == FactoryInit /\ [][Next]_vars

\* The debug console at the first prompt of calibrateSensor, the sensor at
\* some level, with whatever the store holds.
DebugInit ==
    \E level \in SoilLevels, store \in InitStores :
        Is([BootState("UNDEFINED", "HIGH", store)
            EXCEPT !.pc = "calibrateSensor_dryPrompt", !.sensor = level])

CalibrateSensorEnter ==
    /\ pc \in {"calibrateSensor_dryPrompt", "calibrateSensor_wetPrompt"}
    /\ serial # <<>>
    /\ Set(calibrateSensor_enter(State))

CalibrateSensorDry ==
    /\ pc = "calibrateSensor_dry"
    /\ \E reading \in analogRead(State) : Set(calibrateSensor_dry(State, reading))

CalibrateSensorWet ==
    /\ pc = "calibrateSensor_wet"
    /\ \E reading \in analogRead(State) : Set(calibrateSensor_wet(State, reading))

\* The operator answers a prompt of calibrateSensor.
OperatorPressesEnter ==
    /\ pc \in {"calibrateSensor_dryPrompt", "calibrateSensor_wetPrompt"}
    /\ serial = <<>>
    /\ \E line \in InputLines : serial' = <<line>>
    /\ UNCHANGED <<pc, wakeup_reason, button, link, sensor, nvs, handler, loc, events,
                   wifiResult, sendResult, planResult, payload, calib, armed,
                   timerSeconds>>

\* The operator moves the sensor (air, water, soil) while a prompt waits.
OperatorMovesSensor ==
    /\ pc \in {"calibrateSensor_dryPrompt", "calibrateSensor_wetPrompt"}
    /\ \E level \in SoilLevels \ {sensor} : sensor' = level
    /\ UNCHANGED <<pc, wakeup_reason, button, serial, link, nvs, handler, loc, events,
                   wifiResult, sendResult, planResult, payload, calib, armed,
                   timerSeconds>>

DebugNext ==
    \/ CalibrateSensorEnter
    \/ CalibrateSensorDry
    \/ CalibrateSensorWet
    \/ OperatorPressesEnter
    \/ OperatorMovesSensor

DebugSpec == DebugInit /\ [][DebugNext]_vars

\* =============================================================== claims
Has(e) == \E k \in 1..Len(events) : events[k] = e

\* The boot's steps of measuring, delivering, planning and sleeping, in order.
Steps ==
    SelectSeq(events, LAMBDA e : e \in {"measure", "deliver", "plan", "sleep"})

\* The duration the handler of this boot planned to sleep.
PlannedSeconds ==
    IF handler = "performCalibration" THEN CALIBRATION_SLEEP_SECONDS
    ELSE IF planResult # Absent THEN planResult
    ELSE DEFAULT_SLEEP_SECONDS

\* C1: whenever the device is in deep sleep, this boot has armed both the
\* button wake and the timer wake, the timer for the planned duration.
C1_BothWakeSourcesArmed ==
    pc = "asleep" =>
        /\ armed = {"EXT0", "TIMER"}
        /\ timerSeconds = PlannedSeconds

\* Deep sleep entered after an invalid-calibration-range warning.
C1_Witness ==
    /\ pc = "asleep"
    /\ calib.warning
    /\ armed = {"EXT0", "TIMER"}

\* C2 (as stated): a boot never ends otherwise than in deep sleep.
C2_EveryBootEndsInSleep ==
    pc \notin {"restarted", "loop"}

\* C2 (amended): no boot returns to loop(); a boot that ends without deep
\* sleep ends in the restart that follows the interactive setup, entered
\* from the configuration check of the first-boot or the normal-operation
\* handler, with the three values stored.
C2_BootEndsInSleepOrSetupRestart ==
    /\ pc # "loop"
    /\ pc = "restarted" =>
        /\ handler \in {"performInitialSleep", "performNormalOperation"}
        /\ events = <<"setup", "restart">>
        /\ configPresent(nvs)
        /\ armed = {}
    /\ pc = "asleep" => events[Len(events)] = "sleep"

\* A timer wake that ended in the restart after setup.
C2_Witness ==
    /\ pc = "restarted"
    /\ wakeup_reason = "TIMER"
    /\ handler = "performNormalOperation"

\* Where the firmware waits for the console, or the boot is over.
ConsoleOrEnded == pc \in {"readSerialInput", "asleep", "restarted"}

\* C3 (as stated): from every position of a boot the firmware comes to a
\* console wait or to the end of the boot, whatever the button does.
C3_OnlyConsoleWaitsUnbounded ==
    (~ConsoleOrEnded) ~> ConsoleOrEnded

\* C3 (amended): from every position of a boot the firmware comes to a
\* console wait, to the button-release wait of the press timing, or to the
\* end of the boot, whatever the button, the link and the collaborators do.
C3_OnlyOperatorWaitsUnbounded ==
    (~(ConsoleOrEnded \/ pc = "handleButtonOperation"))
        ~> (ConsoleOrEnded \/ pc = "handleButtonOperation")

\* The third connection attempt polled to its limit with the link down.
C3_Witness ==
    /\ pc = "connectToWiFi_check"
    /\ loc.attempt = WIFI_MAX_ATTEMPTS
    /\ loc.attempts = WIFI_POLL_LIMIT
    /\ link = "down"

\* C4: a boot woken by the button edge runs the manual-measurement or the
\* calibration handler, never normal operation.
C4_ButtonWakeRunsButtonHandler ==
    wakeup_reason = "EXT0" =>
        handler \in {"none", "performManualMeasurement", "performCalibration"}

\* C5 (as stated): a boot woken by the timer or another cause runs normal
\* operation, whatever the button level.
C5_TimerWakeRunsNormalOperation ==
    wakeup_reason \in {"TIMER", "OTHER"} =>
        handler \in {"none", "performNormalOperation"}

\* C5 (amended): in a boot woken by the timer or another cause, normal
\* operation runs exactly when the sampling window closed with no press
\* detected; a detected press leads, on release, to the manual-measurement
\* or the calibration handler.
C5_TimerWakeDispatchByButton ==
    wakeup_reason \in {"TIMER", "OTHER"} =>
        /\ handler # "performInitialSleep"
        /\ handler = "performNormalOperation"
              <=> (pc \notin {"setup", "checkButtonPress"} /\ ~Has("press"))
        /\ handler \in {"performManualMeasurement", "performCalibration"}
              <=> (Has("press") /\ pc # "handleButtonOperation")

\* A timer wake that ended in a manual measurement.
C5_Witness ==
    /\ wakeup_reason = "TIMER"
    /\ handler = "performManualMeasurement"
    /\ pc = "asleep"
    /\ Has("measure")

\* C6: a power-on boot that finds the configuration absent arms a sleep of
\* 3600 seconds, without measuring, waiting for the console or restarting.
C6_FirstBootWithoutConfigSleepsAnHour ==
    (/\ wakeup_reason = "UNDEFINED"
     /\ handler = "performInitialSleep"
     /\ ~configPresent(nvs))
        => /\ pc = "asleep"
           /\ timerSeconds = SETUP_SLEEP_SECONDS
           /\ sensor = Absent

\* C7: a power-on boot reads no sensor sample and attempts no delivery; with
\* the connection made it sleeps for what calculateNextWakeTime returned.
C7_FirstBootNeverMeasures ==
    wakeup_reason = "UNDEFINED" =>
        /\ sensor = Absent
        /\ ~Has("measure") /\ ~Has("deliver") /\ ~Has("post")
        /\ payload = NoPayload
        /\ (pc = "asleep" /\ wifiResult = "true") =>
              /\ planResult # Absent
              /\ timerSeconds = planResult
              /\ events = <<"ntp", "plan", "sleep">>

\* A power-on boot asleep until the next half-hour boundary, one second away.
C7_Witness ==
    /\ wakeup_reason = "UNDEFINED"
    /\ pc = "asleep"
    /\ wifiResult = "true"
    /\ timerSeconds = 1

\* The boot took a measuring path: manual measurement, or normal operation
\* with the configuration present.
MeasuringPath ==
    \/ handler = "performManualMeasurement"
    \/ handler = "performNormalOperation" /\ ~Has("setup")

\* C8 (as stated): a boot on a measuring path sleeps after one measurement,
\* one delivery attempt and one planner computation, in this order, for the
\* planner's duration.
C8_MeasureDeliverPlanSleep ==
    (pc = "asleep" /\ MeasuringPath) =>
        /\ Steps = <<"measure", "deliver", "plan", "sleep">>
        /\ timerSeconds = planResult

\* C8 (amended): the same, once connectToWiFi has succeeded.
C8_MeasureDeliverPlanSleepWhenConnected ==
    (pc = "asleep" /\ MeasuringPath /\ wifiResult = "true") =>
        /\ Steps = <<"measure", "deliver", "plan", "sleep">>
        /\ timerSeconds = planResult

\* A manual measurement whose delivery failed, asleep for the planned time.
C8_Witness ==
    /\ pc = "asleep"
    /\ handler = "performManualMeasurement"
    /\ wifiResult = "true"
    /\ sendResult = "false"
    /\ timerSeconds = 800

\* C9 (as stated): a boot woken by the timer or another cause with the
\* configuration absent reads no sample, delivers nothing and does not
\* sleep: it waits for the three values and restarts.
C9_TimerWakeWithoutConfigOnlySetsUp ==
    (wakeup_reason \in {"TIMER", "OTHER"} /\ ~configPresent(nvs)) =>
        /\ sensor = Absent
        /\ ~Has("deliver")
        /\ pc # "asleep"

\* C9 (amended): the same for the boots in which no press is detected in
\* the sampling window, that is, in the normal-operation handler: with the
\* configuration absent it waits on the console, reads no sample, delivers
\* nothing, and restarts only with the three values stored.
C9_NormalOperationWithoutConfigOnlySetsUp ==
    handler = "performNormalOperation" =>
        /\ ~configPresent(nvs) =>
              /\ pc = "readSerialInput"
              /\ events = <<"setup">>
              /\ sensor = Absent
        /\ Has("setup") =>
              /\ pc \in {"readSerialInput", "restarted"}
              /\ sensor = Absent
              /\ ~Has("measure") /\ ~Has("deliver")
        /\ pc = "restarted" =>
              /\ configPresent(nvs)
              /\ events = <<"setup", "restart">>

\* A timer wake that found no configuration, set up and restarted.
C9_Witness ==
    /\ wakeup_reason = "OTHER"
    /\ handler = "performNormalOperation"
    /\ pc = "restarted"
    /\ nvs.token # <<>>

\* C10: a boot that ran the calibration sleeps exactly 300 seconds, for
\* every outcome and with or without the range warning, and never calls
\* calculateNextWakeTime.
C10_CalibrationSleepsFiveMinutes ==
    (pc = "asleep" /\ handler = "performCalibration") =>
        /\ timerSeconds = CALIBRATION_SLEEP_SECONDS
        /\ planResult = Absent
        /\ events = <<"press", "calibrate", "sleep">>
        /\ calib.outcome \in {"DryUpdated", "WetUpdated", "NoChange"}

\* A calibration that changed nothing and warned, asleep.
C10_Witness ==
    /\ pc = "asleep"
    /\ handler = "performCalibration"
    /\ calib.outcome = "NoChange"
    /\ calib.warning
    /\ timerSeconds = 300

\* The calibration pair as the next moisture computation will read it.
StoredPair ==
    <<getInt(nvs.dry_value, DEFAULT_DRY), getInt(nvs.wet_value, DEFAULT_WET)>>

\* The pair the ordered rule prescribes for a sample and a previous pair.
RulePair(sample, previous) ==
    IF sample >= 2000 THEN <<sample, previous[2]>>
    ELSE IF sample <= 1800 THEN <<previous[1], sample>>
    ELSE previous

\* C11: after a calibration, for every averaged sample in 0..4095 and every
\* previous pair: a sample of 2000 or more replaces the dry value only
\* (DryUpdated), otherwise a sample of 1800 or less replaces the wet value
\* only (WetUpdated), otherwise (1801..1999) the pair is unchanged (NoChange).
C11_CalibrateOrderedRule ==
    (pc = "asleep" /\ handler = "performCalibration") =>
        LET sample == calib.currentValue
            previous == calib.before
        IN  /\ sample = sensor
            /\ sample \in 2000..4095 =>
                  /\ StoredPair = <<sample, previous[2]>>
                  /\ calib.outcome = "DryUpdated"
            /\ sample \in 0..1800 =>
                  /\ StoredPair = <<previous[1], sample>>
                  /\ calib.outcome = "WetUpdated"
            /\ sample \in 1801..1999 =>
                  /\ StoredPair = previous
                  /\ calib.outcome = "NoChange"

\* calibrate(2200, {2800, 1300}) = {2200, 1300}, with both keys never
\* written before.
C11_Witness ==
    /\ pc = "asleep"
    /\ calib.currentValue = 2200
    /\ calib.before = <<2800, 1300>>
    /\ nvs.wet_value = Absent
    /\ StoredPair = <<2200, 1300>>

\* C12: the step that ends a calibration writes at most one of the two
\* calibration keys: none for a sample in 1801..1999, not wet_value for a
\* sample of 2000 or more, not dry_value for a sample of 1800 or less; it
\* writes no credential key.
C12_CalibrationWritesAtMostOneKey ==
    [][(pc = "performCalibration" /\ pc' = "asleep") =>
          /\ nvs'.ssid = nvs.ssid
          /\ nvs'.password = nvs.password
          /\ nvs'.token = nvs.token
          /\ nvs'.dry_value = nvs.dry_value \/ nvs'.wet_value = nvs.wet_value
          /\ calib'.currentValue \in 1801..1999 => nvs' = nvs
          /\ calib'.currentValue >= 2000 => nvs'.wet_value = nvs.wet_value
          /\ calib'.currentValue <= 1800 => nvs'.dry_value = nvs.dry_value]_vars

\* A wet calibration that left the dry key as it was: never written.
C12_Witness ==
    /\ pc = "asleep"
    /\ handler = "performCalibration"
    /\ calib.currentValue = 1500
    /\ nvs.wet_value = 1500
    /\ nvs.dry_value = Absent

\* C13: once the rule is applied, the invalid-range warning is given exactly
\* when the stored pair has dry <= wet; with or without it the pair is the
\* one the rule prescribes and the boot is asleep with both wake sources
\* armed.
C13_InvalidRangeWarningIsAdvisory ==
    (handler = "performCalibration" /\ Has("calibrate")) =>
        /\ calib.warning <=> (StoredPair[1] <= StoredPair[2])
        /\ StoredPair = RulePair(calib.currentValue, calib.before)
        /\ pc = "asleep"
        /\ armed = {"EXT0", "TIMER"}

\* A wet calibration that made the pair degenerate, warned, and sleeps.
C13_Witness ==
    /\ pc = "asleep"
    /\ calib.outcome = "WetUpdated"
    /\ calib.warning
    /\ StoredPair = <<1500, 1500>>
    /\ calib.before = <<1500, 1300>>

\* C14: whenever a boot sleeps after a calibration that classified the
\* sample as DRY or WET, the store already holds the sample under the
\* matching key, the write precedes the sleep, and the boot that follows
\* starts with that store.
C14_CalibrationPersistedBeforeSleep ==
    [][(pc = "asleep" /\ calib.outcome \in {"DryUpdated", "WetUpdated"}) =>
          /\ calib.outcome = "DryUpdated" => nvs.dry_value = calib.currentValue
          /\ calib.outcome = "WetUpdated" => nvs.wet_value = calib.currentValue
          /\ events = <<"press", "calibrate", "sleep">>
          /\ pc' = "setup"
          /\ nvs' = nvs]_vars

\* A dry calibration asleep with the new dry value stored.
C14_Witness ==
    /\ pc = "asleep"
    /\ calib.outcome = "DryUpdated"
    /\ calib.before[1] = 2800
    /\ nvs.dry_value = 2200

\* The calibration keys of a store.
CalibrationKeys(store) == <<store.dry_value, store.wet_value>>

\* C15: over any sequence of boots the calibration keys change only in the
\* step that ends a calibration; a delivery reads them without writing, and
\* with both keys absent computes the moisture from dry = 2800, wet = 1300.
C15_CalibrationChangedOnlyByEngine ==
    [][/\ CalibrationKeys(nvs') # CalibrationKeys(nvs) =>
             /\ handler = "performCalibration"
             /\ pc = "performCalibration"
             /\ pc' = "asleep"
       /\ (pc = "sendDataToGitHub" /\ payload' # NoPayload) =>
             /\ CalibrationKeys(nvs') = CalibrationKeys(nvs)
             /\ CalibrationKeys(nvs) = <<Absent, Absent>> =>
                   LET raw == payload'.raw_value
                   IN  payload'.moisture_tenths =
                         10 * (IF raw >= 2800 THEN 0
                               ELSE IF raw <= 1300 THEN 100
                               ELSE ((2800 - raw) * 100) \div 1500)]_vars

\* A delivery computed from the defaults, asleep with the keys still absent.
C15_Witness ==
    /\ pc = "asleep"
    /\ Has("post")
    /\ CalibrationKeys(nvs) = <<Absent, Absent>>
    /\ payload.raw_value = 1500
    /\ payload.moisture_tenths = 860

\* C16: with the clock below 1000000000 (no time included) the planner
\* returns 1800 and the boot sleeps 1800 seconds; from 1000000000 on it
\* returns the distance to the next half hour of local time, which for
\* 1000000000 itself is 800 seconds.
C16_InvalidTimeFallsBack ==
    pc = "asleep" =>
        /\ timerSeconds = planResult
        /\ loc.now < 1000000000 => planResult = 1800
        /\ loc.now >= 1000000000 =>
              planResult = 1800 - ((loc.now + 9 * 3600) % 1800)
        /\ loc.now = 1000000000 => planResult = 800

\* The clock one second below the threshold: asleep for the fallback.
C16_Witness ==
    /\ pc = "asleep"
    /\ loc.now = NTP_VALID_EPOCH - 1
    /\ planResult = DEFAULT_SLEEP_SECONDS
    /\ timerSeconds = DEFAULT_SLEEP_SECONDS

\* C17: for every valid time, with local minute and second in 0..59, the
\* planner returns between 0 and 1800 seconds.
C17_SecondsToTargetWithinHalfHour ==
    (pc = "asleep" /\ loc.now >= NTP_VALID_EPOCH) =>
        /\ tm_min(loc.now) \in 0..59
        /\ tm_sec(loc.now) \in 0..59
        /\ planResult >= 0
        /\ planResult <= 1800

\* The start of an hour: the largest value, 1800 seconds.
C17_Witness ==
    /\ pc = "asleep"
    /\ loc.now = HourStart
    /\ tm_min(loc.now) = 0
    /\ tm_sec(loc.now) = 0
    /\ planResult = 1800

\* C18: for every valid time at local minute m and second s the planner
\* returns the seconds to the next half-hour boundary: m*60 + s + result is
\* a multiple of 1800, the target is :30 for m < 30 and the next :00
\* otherwise, the hour-rollover expression agrees with the general one, and
\* hh:05:00 and hh:35:00 both give 1500.
C18_SecondsToNextHalfHourBoundary ==
    (pc = "asleep" /\ loc.now >= NTP_VALID_EPOCH) =>
        LET m == tm_min(loc.now)
            s == tm_sec(loc.now)
            target == IF m < 30 THEN 30 ELSE 60
        IN  /\ (m * 60 + s + planResult) % 1800 = 0
            /\ planResult = target * 60 - (m * 60 + s)
            /\ planResult = (60 - m) * 60 - s - (60 - target) * 60
            /\ (m = 5 /\ s = 0) => planResult = 1500
            /\ (m = 35 /\ s = 0) => planResult = 1500

\* hh:35:00: asleep for the 25 minutes to the next full hour.
C18_Witness ==
    /\ pc = "asleep"
    /\ loc.now = HourStart + 35 * 60
    /\ planResult = 1500
    /\ timerSeconds = 1500

\* C19: when the press timing ends, a measured duration below 1000 ms runs
\* the manual measurement and a duration of 1000 ms or more runs the
\* calibration; one of the two handlers runs, never both and never another.
C19_ShortBelowOneSecondElseLong ==
    [][(pc = "handleButtonOperation" /\ pc' # "handleButtonOperation") =>
          /\ handler = "none"
          /\ handler' \in {"performManualMeasurement", "performCalibration"}
          /\ loc.pressTime < 1000 <=> handler' = "performManualMeasurement"
          /\ loc.pressTime >= 1000 <=> handler' = "performCalibration"
          /\ handler' = "performCalibration" <=> pc' = "performCalibration"
          /\ handler' = "performManualMeasurement" =>
                pc' \in {"connectToWiFi", "asleep"}]_vars

\* A press timed long: the calibration handler is sampling.
C19_Witness ==
    /\ handler = "performCalibration"
    /\ pc = "performCalibration"
    /\ events = <<"press">>
    /\ button = "HIGH"

\* C20: for every averaged sample in 0..4095 and every stored pair, inverted
\* and equal pairs included, a delivery that posts carries the sample and a
\* moisture between 0 and 100 percent, and the boot goes on to plan its
\* sleep.
C20_MoistureWithinPercentRange ==
    (pc = "calculateNextWakeTime" /\ Has("deliver")) =>
        /\ Has("post")
        /\ payload.raw_value = sensor
        /\ payload.moisture_tenths >= 0
        /\ payload.moisture_tenths <= 1000
        /\ sendResult \in {"true", "false"}

\* A delivery computed with dry_value = wet_value.
C20_Witness ==
    /\ pc = "calculateNextWakeTime"
    /\ Has("post")
    /\ nvs.dry_value = 1500
    /\ nvs.wet_value = 1500
    /\ payload.raw_value = 2000
    /\ payload.moisture_tenths = 0

\* How often this boot has done e.
Count(e) == Len(SelectSeq(events, LAMBDA x : x = e))

\* (raw - dry) / (wet - dry) * 100 over the reals, clamped to [0, 100] and
\* rounded to tenths of a percent, for dry > wet.
InterpolatedTenths(raw, dry, wet) ==
    IF raw >= dry THEN 0
    ELSE IF raw <= wet THEN 1000
    ELSE (2 * 1000 * (dry - raw) + (dry - wet)) \div (2 * (dry - wet))

\* C21: for every sample and every pair with dry > wet, the moisture that is
\* delivered is the real-valued interpolation clamped to [0, 100], to one
\* decimal place: 86.7 for raw 1500 with dry 2800 and wet 1300.
C21_DeliversInterpolationToOneDecimal ==
    (Has("post") /\ StoredPair[1] > StoredPair[2]) =>
        payload.moisture_tenths =
            InterpolatedTenths(payload.raw_value, StoredPair[1], StoredPair[2])

\* The planner's values for the times the time source may give.
PlannerValues == {calculateNextWakeTime(now) : now \in TimeValues}

\* C22: a boot makes at most one delivery attempt and at most one POST;
\* after the attempt, failed or not, it plans once and sleeps for the
\* planner's duration, a value the planner computes from the time alone.
C22_DeliveryAttemptedOnceNeverRetried ==
    /\ Count("deliver") <= 1
    /\ Count("post") <= 1
    /\ Has("deliver") => sendResult \in {"true", "false"}
    /\ (pc = "asleep" /\ Has("deliver")) =>
          /\ Steps = <<"measure", "deliver", "plan", "sleep">>
          /\ Count("plan") = 1
          /\ timerSeconds = planResult
          /\ planResult \in PlannerValues

\* A delivery refused by the webhook, not repeated, asleep for the 1800 s
\* to the next half hour.
C22_Witness ==
    /\ pc = "asleep"
    /\ sendResult = "false"
    /\ Count("post") = 1
    /\ payload.timestamp = HourStart
    /\ timerSeconds = 1800
    /\ planResult = 1800

\* C23: a boot starts the time synchronisation at most once.
C23_AtMostOneTimeSyncPerBoot ==
    Count("ntp") <= 1

\* C24: when the debug console's calibrateSensor has stored, the store holds
\* the pair the autonomous rule leaves for the same two averaged samples and
\* the same previous pair.
C24_DebugCalibrationAsAutonomous ==
    [][(pc = "calibrateSensor_wet" /\ pc' = "showMenu") =>
          CalibrationKeys(nvs') =
              CalibrationKeys(calibrate(loc'.wetValue,
                                        calibrate(loc'.dryValue, nvs)))]_vars

\* connectToWiFi is running.
InConnect == pc \in {"connectToWiFi", "connectToWiFi_check"}

\* C25: connectToWiFi returns; without credentials it returns false with no
\* attempt; otherwise the attempts are numbered 1..3 with at most 20 polling
\* waits each, an attempt that ends connected returns true at once, a failed
\* attempt below the third starts the next one, and the third failed attempt
\* returns false.
C25_ConnectToWiFiTerminates ==
    /\ [][/\ (pc = "handleButtonOperation" /\ ~credentialsPresent(nvs)) =>
                (wifiResult' = "false" /\ ~InConnect')
          /\ InConnect' =>
                /\ credentialsPresent(nvs')
                /\ loc'.attempt \in 1..3
                /\ loc'.attempts \in 0..20
                /\ wifiResult' = "none"
          /\ (pc = "connectToWiFi" /\ pc' = "connectToWiFi_check") =>
                (link = "up" \/ loc.attempts = 20)
          /\ (pc = "connectToWiFi_check" /\ pc' # pc) =>
                IF link = "up" THEN wifiResult' = "true"
                ELSE IF loc.attempt < 3
                     THEN /\ pc' = "connectToWiFi"
                          /\ loc'.attempt = loc.attempt + 1
                          /\ loc'.attempts = 0
                     ELSE wifiResult' = "false"]_vars
    /\ InConnect ~> (~InConnect /\ wifiResult \in {"true", "false"})

\* Three attempts failed with credentials stored: false, asleep.
C25_Witness ==
    /\ credentialsPresent(nvs)
    /\ wifiResult = "false"
    /\ handler = "performManualMeasurement"
    /\ pc = "asleep"

\* C26: on a device whose calibration keys start absent, after any sequence
\* of boots a written dry value is 2000 or more and a written wet value is
\* 1800 or less, the pair read with the defaults has dry > wet, and no
\* calibration gives the invalid-range warning.
C26_AutonomousCalibrationKeepsRangeValid ==
    /\ nvs.dry_value = Absent \/ nvs.dry_value >= 2000
    /\ nvs.wet_value = Absent \/ nvs.wet_value <= 1800
    /\ StoredPair[1] >= 2000
    /\ StoredPair[2] <= 1800
    /\ StoredPair[1] > StoredPair[2]
    /\ ~calib.warning

\* Both keys written at their thresholds by earlier boots, then a
\* calibration in the dead zone.
C26_Witness ==
    /\ nvs.dry_value = 2000
    /\ nvs.wet_value = 1800
    /\ pc = "asleep"
    /\ calib.outcome = "NoChange"
    /\ calib.currentValue = 1900

C28_SleepDurationPositiveAndBounded ==
    /\ Count("sleep") <= 1
    /\ pc = "asleep" =>
          /\ Count("sleep") = 1
          /\ timerSeconds \in ({300, 1800, 3600} \cup (1..1800))
          /\ timerSeconds > 0
          /\ timerSeconds <= 3600

\* A measuring boot planned at hh:29:59: asleep for one second.
C28_Witness ==
    /\ pc = "asleep"
    /\ handler = "performNormalOperation"
    /\ Has("plan")
    /\ timerSeconds = 1
    /\ Count("sleep") = 1

\* C29: the restart after the interactive setup happens with the three
\* values stored non-empty; once they are stored no step changes them, the
\* firmware never waits for the console again, and a power-on boot with
\* them only connects, plans and sleeps.
C29_ConfigurationStaysOnceStored ==
    [][/\ pc' = "restarted" =>
             /\ configPresent(nvs')
             /\ Len(nvs'.ssid) > 0 /\ Len(nvs'.password) > 0 /\ Len(nvs'.token) > 0
       /\ configPresent(nvs) =>
             /\ nvs'.ssid = nvs.ssid
             /\ nvs'.password = nvs.password
             /\ nvs'.token = nvs.token
             /\ pc' # "readSerialInput"
             /\ pc # "restarted" =>
                   \A k \in 1..Len(events') : events'[k] # "setup"
             /\ (pc = "restarted" \/ wakeup_reason' = "UNDEFINED") =>
                   pc' \in {"setup", "connectToWiFi", "connectToWiFi_check",
                            "calculateNextWakeTime", "asleep", "restarted"}]_vars

\* The power-on setup completed: the three values stored, restarting.
C29_Witness ==
    /\ pc = "restarted"
    /\ wakeup_reason = "UNDEFINED"
    /\ handler = "performInitialSleep"
    /\ events = <<"setup", "restart">>
    /\ configPresent(nvs)

====
